---- MODULE Spec2Model ----
(***************************************************************************)
(* Credit ledger and billing reconciliation of job-app-backend.            *)
(*                                                                         *)
(* The store is the D1 database (users, credit_transactions, api_usage,    *)
(* payments, subscriptions).  Every `await db....` of the source is one    *)
(* atomic store statement; a handler is a process that runs its statements *)
(* one at a time, so handlers of concurrent requests interleave between    *)
(* statements (the source opens no transaction).                           *)
(***************************************************************************)
EXTENDS Integers, Sequences, FiniteSets, TLC

\* ------------------------------------------------------------------ bounds
MaxRequests == 2    \* requests and provider events served concurrently
MaxSeqRequests == 4 \* requests and provider events served one after the other
MaxFaults == 1      \* store statements that throw (or requests cut short)
MaxCreditCalls == 3 \* direct calls of addCredits
MaxGateRequests == 2 \* deliveries at the webhook endpoint, signed or not
MaxBillingRequests == 3 \* billing requests and subscription events in a row
MaxDeliveries == 2     \* deliveries of one purchase event in flight at a time
MaxLimitedRequests == 3 \* further requests of the extension
MaxWindows == 1      \* one-minute windows that pass
MaxCostedRequests == 2 \* costed requests, deletes and credits of one account

Procs == {"p1", "p2"}       \* concurrently served requests
UserIds == {"u1"}           \* account ids requests may name

None == "none"

\* ------------------------------------------------------- program constants
COVER_LETTER_GENERATION == 3
JOB_EXTRACTION == 1
RESUME_ANALYSIS == 2
RESUME_UPLOAD == 1
COSTS == {COVER_LETTER_GENERATION, JOB_EXTRACTION, RESUME_ANALYSIS, RESUME_UPLOAD}

FreeTierCredits == 3

VARIABLES users, creditTransactions, apiUsage, payments, subscriptions,
          procs, faults, requests, limit, webhooksModule, app

vars == <<users, creditTransactions, apiUsage, payments, subscriptions,
          procs, faults, requests, limit, webhooksModule, app>>

store == <<users, creditTransactions, apiUsage, payments, subscriptions>>
\* app holds what the service keeps next to the billing tables: the
\* stripe-signature header of the delivery at the endpoint, the tables of the
\* costed artifacts, the extension rate limiter's KV namespace with the number
\* of requests it has let through under each key, and the clock in units of
\* the limiter's window
signature == app.signature
coverLetters == app.coverLetters
extractedJobs == app.extractedJobs
rateLimitKV == app.rateLimitKV
admitted == app.admitted
now == app.now
ctl == <<faults, requests, limit, webhooksModule, app>>

\* ------------------------------------------------------------------ helpers
NoRows == [u \in {} |-> None]

\* a provider event as the handlers read it (fields a type lacks are None)
NoEvent == [type |-> None, customer |-> None, metaUser |-> None, object |-> None,
            pi |-> None, sub |-> None, mode |-> None, credits |-> 0,
            price |-> None, status |-> None, period |-> None, reason |-> None,
            amount |-> 0]

RECURSIVE SumAmounts(_)
SumAmounts(s) == IF s = <<>> THEN 0 ELSE Head(s).amount + SumAmounts(Tail(s))

RECURSIVE SelectRows(_, _)
SelectRows(s, u) ==
    IF s = <<>> THEN <<>>
    ELSE IF Head(s).userId = u THEN <<Head(s)>> \o SelectRows(Tail(s), u)
         ELSE SelectRows(Tail(s), u)

Exists(u) == u \in DOMAIN users

\* the credit_transactions rows of one account, in insertion order
LedgerOf(u) == SelectRows(creditTransactions, u)
UsageOf(u) == SelectRows(apiUsage, u)

\* users.credits as the code reads it: (user.credits ?? 0)
CreditsOf(u) == IF Exists(u) THEN users[u].credits ELSE 0

NoSnapshot == [credits |-> 0, exists |-> FALSE, ledger |-> 0, usage |-> 0,
               payments |-> 0, store |-> <<>>]

IdleProc == [op |-> None, pc |-> "idle", user |-> None, amt |-> 0, bal |-> 0,
             row |-> 0, ev |-> NoEvent, res |-> None, alone |-> FALSE,
             pre |-> NoSnapshot, ai |-> None]

\* ------------------------------------------------------------ plan tables
\* PRICING_PLANS of lib/stripe, in the order Object.entries walks it
PRICING_PLANS == <<
    [id |-> "free", credits |-> 3, stripePriceId |-> ""],
    [id |-> "starter", credits |-> 50, stripePriceId |-> "price_starter_monthly"],
    [id |-> "pro", credits |-> 150, stripePriceId |-> "price_pro_monthly"],
    [id |-> "enterprise", credits |-> 500, stripePriceId |-> "price_enterprise_monthly"] >>

MatchingPlans(priceId) ==
    {i \in 1..Len(PRICING_PLANS) : PRICING_PLANS[i].stripePriceId = priceId}

FirstPlan(priceId) ==
    PRICING_PLANS[CHOOSE i \in MatchingPlans(priceId) :
                     \A j \in MatchingPlans(priceId) : i <= j]

\* handleSubscriptionUpdated (routes): planId stays 'free' when no plan matches
PlanIdOfPrice(priceId) ==
    IF MatchingPlans(priceId) = {} THEN "free" ELSE FirstPlan(priceId).id

\* handleInvoicePaymentSucceeded (routes): creditsToGrant stays 0 when no plan matches
CreditsOfPrice(priceId) ==
    IF MatchingPlans(priceId) = {} THEN 0 ELSE FirstPlan(priceId).credits

\* getPlanCredits of the unnamed webhooks module
getPlanCredits(priceId) ==
    CASE priceId = "price_starter" -> 50
      [] priceId = "price_pro" -> 150
      [] priceId = "price_enterprise" -> 500
      [] OTHER -> 0

\* getCreditsFromAmount: Math.floor(amount / 10)
getCreditsFromAmount(amount) == amount \div 10

\* --------------------------------------------------------- store statements
\* select ... from users where stripeCustomerId = customerId
UserOfCustomer(c) ==
    IF \E u \in DOMAIN users : users[u].customer = c
    THEN CHOOSE u \in DOMAIN users : users[u].customer = c
    ELSE None

\* faulty variant: the payments table without its unique indexes
PaymentAcceptedNoUniqueIndex(r) == r.userId \in DOMAIN users

\* the constraints of the payments table: the unique indexes on
\* stripe_payment_intent_id and stripe_session_id (NULLs never collide) and
\* the foreign key on user_id
PaymentAccepted(r) ==
    /\ r.userId \in DOMAIN users
    /\ r.pi # None => \A i \in 1..Len(payments) : payments[i].pi # r.pi
    /\ r.session # None => \A i \in 1..Len(payments) : payments[i].session # r.session

\* select ... from payments where stripePaymentIntentId = id  (0: no row)
PaymentOfIntent(id) ==
    IF \E i \in 1..Len(payments) : payments[i].pi = id
    THEN CHOOSE i \in 1..Len(payments) : payments[i].pi = id
    ELSE 0

\* select ... from subscriptions where stripeSubscriptionId = id  (0: no row)
MirrorOf(id) ==
    IF \E i \in 1..Len(subscriptions) : subscriptions[i].subId = id
    THEN CHOOSE i \in 1..Len(subscriptions) : subscriptions[i].subId = id
    ELSE 0

NewPayment == [userId |-> None, session |-> None, pi |-> None, invoice |-> None,
               meta |-> None, status |-> None, type |-> None, creditsGranted |-> 0]

WebhookOps == {"checkout", "sub_updated", "sub_deleted", "invoice_succeeded",
               "invoice_failed", "pi_succeeded", "pi_failed", "unknown"}

Busy(p) == procs[p].pc # "idle"
Running(p) == procs[p].pc \notin {"idle", "done"}

Snapshot(u) == [credits |-> CreditsOf(u), exists |-> Exists(u),
                ledger |-> Len(LedgerOf(u)), usage |-> Len(UsageOf(u)),
                payments |-> Len(payments), store |-> store]

\* one more request may be served
Room == requests < limit

\* A request starts.  A request that runs with no other request in flight
\* is marked alone and keeps the snapshot taken when it started; once a
\* second request is in flight neither is alone.
Begin(p, rec) ==
    procs' = [q \in Procs |->
                IF q = p
                THEN IF \A r \in Procs \ {p} : ~Busy(r)
                     THEN [rec EXCEPT !.alone = TRUE]
                     ELSE [rec EXCEPT !.alone = FALSE, !.pre = NoSnapshot]
                ELSE [procs[q] EXCEPT !.alone = FALSE, !.pre = NoSnapshot]]

\* a change made outside the requests in flight: none of them ran alone
Disturb == procs' = [q \in Procs |-> [procs[q] EXCEPT !.alone = FALSE,
                                                      !.pre = NoSnapshot]]

Goto(p, pc) == procs' = [procs EXCEPT ![p].pc = pc]
\* the handler has returned or thrown: only its outcome is kept
Outcome(p, res) == [IdleProc EXCEPT !.pc = "done", !.op = procs[p].op,
                                    !.amt = procs[p].amt, !.alone = procs[p].alone,
                                    !.res = res]
Done(p, res) == procs' = [procs EXCEPT ![p] = Outcome(p, res)]

\* what a thrown store error becomes: the unnamed module's handlers catch and
\* log it, the routes module's handlers let it reach the endpoint's catch
ThrowResult(op) ==
    IF op \in WebhookOps /\ webhooksModule = "unnamed" THEN "received" ELSE "error"

Throw(p) == procs' = [procs EXCEPT ![p] = Outcome(p, ThrowResult(procs[p].op))]

\* every delivery is signed, no artifact is stored, the limiter has no key,
\* the clock is in its first window
InitApp ==
    app = [signature |-> "valid", coverLetters |-> <<>>, extractedJobs |-> <<>>,
           rateLimitKV |-> NoRows, admitted |-> NoRows, now |-> 0]

InitStore ==
    /\ users = NoRows
    /\ creditTransactions = <<>>
    /\ apiUsage = <<>>
    /\ payments = <<>>
    /\ subscriptions = <<>>
    /\ procs = [p \in Procs |-> IdleProc]
    /\ faults = 0
    /\ requests = 0
    /\ InitApp

FreshUser == [credits |-> FreeTierCredits, plan |-> "free", status |-> None,
              subId |-> None, customer |-> None, periodEnd |-> None]

\* The store after u1 registered, became a Stripe customer and the routes
\* module processed subscription updated (price_pro_monthly, active).
SubscribedStore ==
    /\ users = ("u1" :> [FreshUser EXCEPT !.plan = "pro", !.status = "active",
                                          !.subId = "sub1", !.customer = "cus_u1",
                                          !.periodEnd = "t1"])
    /\ subscriptions = << [userId |-> "u1", subId |-> "sub1",
                           priceId |-> "price_pro_monthly", status |-> "active"] >>
    /\ creditTransactions = <<>>
    /\ apiUsage = <<>>
    /\ payments = <<>>
    /\ procs = [p \in Procs |-> IdleProc]
    /\ faults = 0
    /\ requests = 0
    /\ InitApp

\* Concurrent requests start from the empty database or, for the routes
\* module, from the subscribed account.
Init ==
    /\ limit = MaxRequests
    /\ \/ InitStore /\ webhooksModule \in {"routes", "unnamed"}
       \/ SubscribedStore /\ webhooksModule = "routes"

\* ------------------------------------------------------------ registration
\* auth.post('/register'): one insert into users
Register(u) ==
    /\ ~Exists(u)
    /\ users' = users @@ (u :> FreshUser)
    /\ Disturb
    /\ UNCHANGED <<creditTransactions, apiUsage, payments, subscriptions, ctl>>

\* billing.post('/create-subscription') and '/purchase-credits': the Stripe
\* customer is created and its id stored on the user
EnsureCustomer(u) ==
    /\ Exists(u)
    /\ users[u].customer = None
    /\ users' = [users EXCEPT ![u].customer = "cus_" \o u]
    /\ Disturb
    /\ UNCHANGED <<creditTransactions, apiUsage, payments, subscriptions, ctl>>

\* ------------------------------------------------ CreditManager.deductCredits
DebitStart(p, u, amount) ==
    /\ ~Busy(p)
    /\ Room
    /\ Begin(p, [IdleProc EXCEPT !.op = "debit", !.pc = "debit_read", !.user = u,
                                 !.amt = amount, !.pre = Snapshot(u)])
    /\ requests' = requests + 1
    /\ UNCHANGED <<store, faults, limit, webhooksModule, app>>

\* the requests that spend credits for an artifact they store
CostedOps == {"extract", "generate"}

\* the endpoint name a caller hands to deductCredits
EndpointOf(op) ==
    CASE op = "extract" -> "extract-from-html"
      [] op = "generate" -> "generate-from-content"
      [] OTHER -> None

\* 'Insufficient credits' is thrown: the routes' catch answers 500, a direct
\* caller gets the error itself
DebitThrows(p) ==
    IF procs[p].op \in CostedOps THEN Done(p, "error") ELSE Done(p, "insufficient")

\* deductCredits has returned: the routes go on to read the balance they report
AfterDebit(p) ==
    IF procs[p].op \in CostedOps THEN Goto(p, "remaining") ELSE Done(p, "ok")

\* faulty variant: the balance is not compared with the amount
DebitRefusedNoCheck(exists, credits, amount) == ~exists

\* the guard of deductCredits on the balance it has read
DebitRefused(exists, credits, amount) == ~exists \/ credits < amount

\* select credits from users; throw 'Insufficient credits' or go on
DebitRead(p) ==
    /\ procs[p].pc = "debit_read"
    /\ LET u == procs[p].user IN
       IF DebitRefused(Exists(u), CreditsOf(u), procs[p].amt)
       THEN DebitThrows(p)
       ELSE procs' = [procs EXCEPT ![p].pc = "debit_update", ![p].bal = CreditsOf(u)]
    /\ UNCHANGED <<store, ctl>>

\* faulty variant: an off-by-one new balance
DebitNewBalanceOffByOne(credits, amount) == credits - amount - 1

\* const newBalance = (user.credits ?? 0) - amount
DebitNewBalance(credits, amount) == credits - amount

\* update users set credits = newBalance (an update of no row changes nothing)
SetCredits(u, n) ==
    users' = IF Exists(u) THEN [users EXCEPT ![u].credits = n] ELSE users

DebitUpdate(p) ==
    /\ procs[p].pc = "debit_update"
    /\ SetCredits(procs[p].user, DebitNewBalance(procs[p].bal, procs[p].amt))
    /\ Goto(p, "debit_usage")
    /\ UNCHANGED <<creditTransactions, apiUsage, payments, subscriptions, ctl>>

DebitUsage(p) ==
    /\ procs[p].pc = "debit_usage"
    /\ apiUsage' = Append(apiUsage, [userId |-> procs[p].user,
                                     creditsUsed |-> procs[p].amt])
    /\ Goto(p, "debit_txn")
    /\ UNCHANGED <<users, creditTransactions, payments, subscriptions, ctl>>

DebitTxn(p) ==
    /\ procs[p].pc = "debit_txn"
    /\ creditTransactions' = Append(creditTransactions,
          [userId |-> procs[p].user, type |-> "spent", amount |-> -procs[p].amt,
           balance |-> DebitNewBalance(procs[p].bal, procs[p].amt),
           source |-> "api_usage", description |-> EndpointOf(procs[p].op)])
    /\ AfterDebit(p)
    /\ UNCHANGED <<users, apiUsage, payments, subscriptions, ctl>>

\* --------------------------------------------------- CreditManager.addCredits
\* the credits of CREDIT_PACKAGES a caller may add
CreditAmounts == {10, 50}

\* addCredits called on its own (not from a webhook handler)
AddStart(p, u, amount) ==
    /\ ~Busy(p)
    /\ Room
    /\ Begin(p, [IdleProc EXCEPT !.op = "credit", !.pc = "add_read", !.user = u,
                                 !.amt = amount, !.pre = Snapshot(u)])
    /\ requests' = requests + 1
    /\ UNCHANGED <<store, faults, limit, webhooksModule, app>>

\* select credits from users; throw 'User not found' or go on
AddRead(p) ==
    /\ procs[p].pc = "add_read"
    /\ IF ~Exists(procs[p].user)
       THEN Throw(p)
       ELSE procs' = [procs EXCEPT ![p].pc = "add_update",
                                   ![p].bal = CreditsOf(procs[p].user)]
    /\ UNCHANGED <<store, ctl>>

\* faulty variant: the amount replaces the balance
AddNewBalanceReset(credits, amount) == amount

\* const newBalance = (user.credits ?? 0) + amount
AddNewBalance(credits, amount) == credits + amount

AddUpdate(p) ==
    /\ procs[p].pc = "add_update"
    /\ SetCredits(procs[p].user, AddNewBalance(procs[p].bal, procs[p].amt))
    /\ Goto(p, "add_txn")
    /\ UNCHANGED <<creditTransactions, apiUsage, payments, subscriptions, ctl>>

\* the caller's statement after addCredits returns
AfterAdd(p) ==
    CASE procs[p].op = "checkout" -> Goto(p, "co_grant")
      [] procs[p].op = "credit" -> Done(p, "ok")
      [] OTHER -> Done(p, "received")

AddTxn(p) ==
    /\ procs[p].pc = "add_txn"
    /\ creditTransactions' = Append(creditTransactions,
          [userId |-> procs[p].user, type |-> "earned", amount |-> procs[p].amt,
           balance |-> AddNewBalance(procs[p].bal, procs[p].amt),
           source |-> "purchase"])
    /\ AfterAdd(p)
    /\ UNCHANGED <<users, apiUsage, payments, subscriptions, ctl>>

\* ------------------------------------------ CreditManager.resetCreditsForPlan
ResetUpdate(p) ==
    /\ procs[p].pc = "reset_update"
    /\ SetCredits(procs[p].user, procs[p].amt)
    /\ Goto(p, "reset_txn")
    /\ UNCHANGED <<creditTransactions, apiUsage, payments, subscriptions, ctl>>

\* the amount column of the entry resetCreditsForPlan writes
ResetAmount(planCredits) == planCredits

ResetTxn(p) ==
    /\ procs[p].pc = "reset_txn"
    /\ creditTransactions' = Append(creditTransactions,
          [userId |-> procs[p].user, type |-> "earned",
           amount |-> ResetAmount(procs[p].amt),
           balance |-> procs[p].amt, source |-> "subscription"])
    /\ Done(p, "received")
    /\ UNCHANGED <<users, apiUsage, payments, subscriptions, ctl>>

\* ------------------------------------------------------------ provider events
Customers == {"cus_u1"}
Prices == {"price_pro_monthly", "price_pro"}

CheckoutEvents ==
    {[NoEvent EXCEPT !.type = "checkout", !.customer = "cus_u1", !.metaUser = m,
                     !.object = "cs1", !.pi = "pi1", !.mode = "payment",
                     !.credits = 50] : m \in UserIds \cup {None}}
    \cup {[NoEvent EXCEPT !.type = "checkout", !.customer = "cus_u1",
                          !.metaUser = "u1", !.object = "cs2", !.sub = "sub1",
                          !.mode = "subscription"]}

SubUpdatedEvents ==
    {[NoEvent EXCEPT !.type = "sub_updated", !.customer = "cus_u1",
                     !.object = "sub1", !.price = pr, !.status = st,
                     !.period = "t1"] :
        pr \in Prices, st \in {"active", "canceled"}}

SubDeletedEvents ==
    {[NoEvent EXCEPT !.type = "sub_deleted", !.customer = "cus_u1", !.object = "sub1"]}

InvoiceSucceededEvents ==
    {[NoEvent EXCEPT !.type = "invoice_succeeded", !.customer = "cus_u1",
                     !.object = "in1", !.sub = "sub1", !.pi = "pi2",
                     !.price = pr, !.reason = "subscription_cycle"] : pr \in Prices}

InvoiceFailedEvents ==
    {[NoEvent EXCEPT !.type = "invoice_failed", !.customer = "cus_u1",
                     !.object = "in1", !.sub = "sub1", !.pi = "pi2"]}

PaymentIntentEvents ==
    {[NoEvent EXCEPT !.type = t, !.customer = "cus_u1", !.object = "pi1",
                     !.amount = 1299] : t \in {"pi_succeeded", "pi_failed"}}

OtherEvents == {[NoEvent EXCEPT !.type = "unknown"]}

\* ------------------------------------------------------ the endpoint's gate
\* the stripe-signature header of a delivery
Signatures == {"valid", "invalid", "missing"}

\* faulty variant: every header is accepted
constructEventAny(sig) == TRUE

\* the header is present and stripe's constructEvent does not throw on it
constructEvent(sig) == sig = "valid"

\* the delivery at the endpoint got past the header test and constructEvent,
\* so the switch on event.type runs
Verified == constructEvent(signature)

\* the next delivery arrives with its header (the sender is not trusted)
Arrive(sig) ==
    /\ app' = [app EXCEPT !.signature = sig]
    /\ UNCHANGED <<store, procs, faults, requests, limit, webhooksModule>>

\* c.json({ error }, 400): the header is missing, or constructEvent threw
SignatureRejected(p) ==
    /\ ~Busy(p)
    /\ Room
    /\ ~Verified
    /\ Begin(p, [IdleProc EXCEPT !.op = "webhook", !.pc = "done", !.res = "error"])
    /\ requests' = requests + 1
    /\ UNCHANGED <<store, faults, limit, webhooksModule, app>>

\* the user a provider event resolves to (None: the event is dropped)
EventUser(ev) ==
    IF ev.type = "checkout" /\ webhooksModule = "routes"
    THEN ev.metaUser
    ELSE UserOfCustomer(ev.customer)

\* a handler is entered: its leading select of the user is part of this step
Enter(p, ev, pc) ==
    Begin(p, [IdleProc EXCEPT !.op = ev.type, !.pc = pc, !.ev = ev,
                              !.user = EventUser(ev),
                              !.pre = Snapshot(EventUser(ev))])

\* faulty variant: a dropped event is answered with an error
DropAsError(p, ev) ==
    Begin(p, [IdleProc EXCEPT !.op = ev.type, !.pc = "done", !.res = "error"])

\* the event is dropped at the handler's first return
Drop(p, ev) ==
    Begin(p, [IdleProc EXCEPT !.op = ev.type, !.pc = "done", !.res = "received"])

\* ------------------------------------- routes/webhooks.ts: checkout completed
CheckoutStart(p, ev) ==
    /\ webhooksModule = "routes"
    /\ ~Busy(p)
    /\ Room
    /\ Verified
    /\ IF ev.metaUser = None THEN Drop(p, ev) ELSE Enter(p, ev, "co_insert")
    /\ requests' = requests + 1
    /\ UNCHANGED <<store, faults, limit, webhooksModule, app>>

CheckoutPayment(ev, u) ==
    [NewPayment EXCEPT !.userId = u, !.session = ev.object, !.pi = ev.pi,
                       !.status = "succeeded",
                       !.type = IF ev.mode = "subscription" THEN "subscription"
                                ELSE "credits"]

\* the condition under which handleCheckoutSessionCompleted grants credits
GrantsCredits(ev) == ev.mode = "payment" /\ ev.credits > 0

CheckoutInsert(p) ==
    /\ procs[p].pc = "co_insert"
    /\ LET r == CheckoutPayment(procs[p].ev, procs[p].user) IN
       IF ~PaymentAccepted(r)
       THEN Throw(p) /\ UNCHANGED payments
       ELSE /\ payments' = Append(payments, r)
            /\ IF GrantsCredits(procs[p].ev)
               THEN procs' = [procs EXCEPT ![p].pc = "add_read",
                                           ![p].amt = procs[p].ev.credits]
               ELSE Done(p, "received")
    /\ UNCHANGED <<users, creditTransactions, apiUsage, subscriptions, ctl>>

CheckoutGrant(p) ==
    /\ procs[p].pc = "co_grant"
    /\ payments' = [i \in 1..Len(payments) |->
                      IF payments[i].session = procs[p].ev.object
                      THEN [payments[i] EXCEPT !.creditsGranted = procs[p].amt]
                      ELSE payments[i]]
    /\ Done(p, "received")
    /\ UNCHANGED <<users, creditTransactions, apiUsage, subscriptions, ctl>>

\* ---------------------------- routes/webhooks.ts: subscription created/updated
\* update users set <fields> where id = u
SetUser(u, row) ==
    users' = IF Exists(u) THEN [users EXCEPT ![u] = row] ELSE users

SubUpdatedStart(p, ev) ==
    /\ webhooksModule = "routes"
    /\ ~Busy(p)
    /\ Room
    /\ Verified
    /\ IF EventUser(ev) = None THEN Drop(p, ev) ELSE Enter(p, ev, "su_user")
    /\ requests' = requests + 1
    /\ UNCHANGED <<store, faults, limit, webhooksModule, app>>

SubUpdatedUser(p) ==
    /\ procs[p].pc = "su_user"
    /\ LET ev == procs[p].ev
           f(r) == [r EXCEPT !.plan = PlanIdOfPrice(ev.price), !.subId = ev.object,
                             !.status = ev.status, !.periodEnd = ev.period]
       IN SetUser(procs[p].user, f(users[procs[p].user]))
    /\ Goto(p, "su_select")
    /\ UNCHANGED <<creditTransactions, apiUsage, payments, subscriptions, ctl>>

SubUpdatedSelect(p) ==
    /\ procs[p].pc = "su_select"
    /\ procs' = [procs EXCEPT ![p].pc = "su_upsert",
                              ![p].row = MirrorOf(procs[p].ev.object)]
    /\ UNCHANGED <<store, ctl>>

MirrorRow(ev, u) ==
    [userId |-> u, subId |-> ev.object, priceId |-> ev.price, status |-> ev.status]

\* faulty variant: the subscriptions table without its unique index
MirrorAcceptedNoUniqueIndex(r) == Exists(r.userId)

\* the constraints of the subscriptions table: the unique index on
\* stripe_subscription_id and the foreign key on user_id
MirrorAccepted(r) == MirrorOf(r.subId) = 0 /\ Exists(r.userId)

\* update by the local row id when a row was found, insert otherwise; the
\* insert fails on the unique index on stripe_subscription_id
SubUpdatedUpsert(p) ==
    /\ procs[p].pc = "su_upsert"
    /\ LET r == MirrorRow(procs[p].ev, procs[p].user) IN
       IF procs[p].row # 0
       THEN /\ subscriptions' = [subscriptions EXCEPT ![procs[p].row] = r]
            /\ Done(p, "received")
       ELSE IF ~MirrorAccepted(r)
            THEN Throw(p) /\ UNCHANGED subscriptions
            ELSE /\ subscriptions' = Append(subscriptions, r)
                 /\ Done(p, "received")
    /\ UNCHANGED <<users, creditTransactions, apiUsage, payments, ctl>>

\* ----------------------------------- routes/webhooks.ts: subscription deleted
SubDeletedStart(p, ev) ==
    /\ webhooksModule = "routes"
    /\ ~Busy(p)
    /\ Room
    /\ Verified
    /\ IF EventUser(ev) = None THEN Drop(p, ev) ELSE Enter(p, ev, "sd_user")
    /\ requests' = requests + 1
    /\ UNCHANGED <<store, faults, limit, webhooksModule, app>>

\* faulty variant: the balance is clawed back with the plan
CanceledUserClawback(r) == [r EXCEPT !.plan = "free", !.status = "canceled",
                                     !.credits = 0]

\* the fields handleSubscriptionDeleted sets on the user
CanceledUser(r) == [r EXCEPT !.plan = "free", !.status = "canceled"]

SubDeletedUser(p) ==
    /\ procs[p].pc = "sd_user"
    /\ SetUser(procs[p].user, CanceledUser(users[procs[p].user]))
    /\ Goto(p, "sd_mirror")
    /\ UNCHANGED <<creditTransactions, apiUsage, payments, subscriptions, ctl>>

SubDeletedMirror(p) ==
    /\ procs[p].pc = "sd_mirror"
    /\ subscriptions' = [i \in 1..Len(subscriptions) |->
                           IF subscriptions[i].subId = procs[p].ev.object
                           THEN [subscriptions[i] EXCEPT !.status = "canceled"]
                           ELSE subscriptions[i]]
    /\ Done(p, "received")
    /\ UNCHANGED <<users, creditTransactions, apiUsage, payments, ctl>>

\* -------------------------------- routes/webhooks.ts: invoice payment succeeded
InvoiceSucceededStart(p, ev) ==
    /\ webhooksModule = "routes"
    /\ ~Busy(p)
    /\ Room
    /\ Verified
    /\ IF EventUser(ev) = None THEN Drop(p, ev) ELSE Enter(p, ev, "is_select")
    /\ requests' = requests + 1
    /\ UNCHANGED <<store, faults, limit, webhooksModule, app>>

\* select the mirror row and look its price up in PRICING_PLANS
InvoiceSucceededSelect(p) ==
    /\ procs[p].pc = "is_select"
    /\ LET i == MirrorOf(procs[p].ev.sub)
           creditsToGrant == IF i = 0 THEN 0 ELSE CreditsOfPrice(subscriptions[i].priceId)
       IN procs' = [procs EXCEPT ![p].pc = IF creditsToGrant > 0 THEN "is_credits"
                                           ELSE "is_payment",
                                 ![p].row = i, ![p].amt = creditsToGrant]
    /\ UNCHANGED <<store, ctl>>

\* update users set credits = creditsToGrant (no credit transaction is written)
InvoiceSucceededCredits(p) ==
    /\ procs[p].pc = "is_credits"
    /\ SetCredits(procs[p].user, procs[p].amt)
    /\ Goto(p, "is_payment")
    /\ UNCHANGED <<creditTransactions, apiUsage, payments, subscriptions, ctl>>

InvoicePayment(ev, u, status) ==
    [NewPayment EXCEPT !.userId = u, !.pi = ev.pi, !.meta = ev.object,
                       !.status = status, !.type = "subscription"]

InvoiceSucceededPayment(p) ==
    /\ procs[p].pc = "is_payment"
    /\ LET r == InvoicePayment(procs[p].ev, procs[p].user, "succeeded") IN
       IF ~PaymentAccepted(r)
       THEN Throw(p) /\ UNCHANGED payments
       ELSE payments' = Append(payments, r) /\ Done(p, "received")
    /\ UNCHANGED <<users, creditTransactions, apiUsage, subscriptions, ctl>>

\* ----------------------------------- routes/webhooks.ts: invoice payment failed
InvoiceFailedStart(p, ev) ==
    /\ webhooksModule = "routes"
    /\ ~Busy(p)
    /\ Room
    /\ Verified
    /\ IF EventUser(ev) = None THEN Drop(p, ev) ELSE Enter(p, ev, "if_user")
    /\ requests' = requests + 1
    /\ UNCHANGED <<store, faults, limit, webhooksModule, app>>

InvoiceFailedUser(p) ==
    /\ procs[p].pc = "if_user"
    /\ LET f(r) == [r EXCEPT !.status = "past_due"]
       IN SetUser(procs[p].user, f(users[procs[p].user]))
    /\ Goto(p, "if_payment")
    /\ UNCHANGED <<creditTransactions, apiUsage, payments, subscriptions, ctl>>

InvoiceFailedPayment(p) ==
    /\ procs[p].pc = "if_payment"
    /\ LET r == InvoicePayment(procs[p].ev, procs[p].user, "failed") IN
       IF ~PaymentAccepted(r)
       THEN Throw(p) /\ UNCHANGED payments
       ELSE payments' = Append(payments, r) /\ Done(p, "received")
    /\ UNCHANGED <<users, creditTransactions, apiUsage, subscriptions, ctl>>

\* ------------------------- routes/webhooks.ts: payment intent succeeded / failed
PaymentIntentStart(p, ev) ==
    /\ webhooksModule = "routes"
    /\ ~Busy(p)
    /\ Room
    /\ Verified
    /\ IF EventUser(ev) = None THEN Drop(p, ev) ELSE Enter(p, ev, "pi_select")
    /\ requests' = requests + 1
    /\ UNCHANGED <<store, faults, limit, webhooksModule, app>>

PaymentIntentSelect(p) ==
    /\ procs[p].pc = "pi_select"
    /\ LET i == PaymentOfIntent(procs[p].ev.object) IN
       IF i = 0 THEN Done(p, "received")
       ELSE procs' = [procs EXCEPT ![p].pc = "pi_update", ![p].row = i]
    /\ UNCHANGED <<store, ctl>>

\* update payments set status = ... where id = existingPayment.id
PaymentIntentUpdate(p) ==
    /\ procs[p].pc = "pi_update"
    /\ payments' = [payments EXCEPT ![procs[p].row].status =
                      IF procs[p].op = "pi_succeeded" THEN "succeeded" ELSE "failed"]
    /\ Done(p, "received")
    /\ UNCHANGED <<users, creditTransactions, apiUsage, subscriptions, ctl>>

\* ======================= the unnamed webhooks module (src/unnamed/part_008)
\* Every handler body is wrapped in try/catch: a thrown error is logged and
\* the endpoint answers { received: true }.

\* checkout completed: the user is marked active with the session's subscription
Checkout2Start(p, ev) ==
    /\ webhooksModule = "unnamed"
    /\ ~Busy(p)
    /\ Room
    /\ Verified
    /\ IF EventUser(ev) = None THEN Drop(p, ev) ELSE Enter(p, ev, "c2_user")
    /\ requests' = requests + 1
    /\ UNCHANGED <<store, faults, limit, webhooksModule, app>>

Checkout2User(p) ==
    /\ procs[p].pc = "c2_user"
    /\ LET ev == procs[p].ev
           f(r) == [r EXCEPT !.subId = ev.sub, !.status = "active"]
       IN SetUser(procs[p].user, f(users[procs[p].user]))
    /\ Done(p, "received")
    /\ UNCHANGED <<creditTransactions, apiUsage, payments, subscriptions, ctl>>

\* subscription updated: status and period, then a reset when active
SubUpdated2Start(p, ev) ==
    /\ webhooksModule = "unnamed"
    /\ ~Busy(p)
    /\ Room
    /\ Verified
    /\ IF EventUser(ev) = None THEN Drop(p, ev) ELSE Enter(p, ev, "s2_user")
    /\ requests' = requests + 1
    /\ UNCHANGED <<store, faults, limit, webhooksModule, app>>

SubUpdated2User(p) ==
    /\ procs[p].pc = "s2_user"
    /\ LET ev == procs[p].ev
           f(r) == [r EXCEPT !.status = ev.status, !.periodEnd = ev.period]
           planCredits == getPlanCredits(ev.price)
       IN /\ SetUser(procs[p].user, f(users[procs[p].user]))
          /\ IF ev.status = "active" /\ planCredits > 0
             THEN procs' = [procs EXCEPT ![p].pc = "reset_update", ![p].amt = planCredits]
             ELSE Done(p, "received")
    /\ UNCHANGED <<creditTransactions, apiUsage, payments, subscriptions, ctl>>

\* subscription deleted: one update of the user
SubDeleted2Start(p, ev) ==
    /\ webhooksModule = "unnamed"
    /\ ~Busy(p)
    /\ Room
    /\ Verified
    /\ IF EventUser(ev) = None THEN Drop(p, ev) ELSE Enter(p, ev, "d2_user")
    /\ requests' = requests + 1
    /\ UNCHANGED <<store, faults, limit, webhooksModule, app>>

CanceledUser2(r) == [r EXCEPT !.plan = "free", !.status = "canceled",
                                !.subId = None, !.periodEnd = None]

SubDeleted2User(p) ==
    /\ procs[p].pc = "d2_user"
    /\ SetUser(procs[p].user, CanceledUser2(users[procs[p].user]))
    /\ Done(p, "received")
    /\ UNCHANGED <<creditTransactions, apiUsage, payments, subscriptions, ctl>>

\* invoice payment succeeded / failed: a payment row keyed by the invoice id
\* (no unique index covers stripe_invoice_id), then a reset on a renewal
Invoice2Start(p, ev) ==
    /\ webhooksModule = "unnamed"
    /\ ~Busy(p)
    /\ Room
    /\ Verified
    /\ IF EventUser(ev) = None THEN Drop(p, ev) ELSE Enter(p, ev, "i2_payment")
    /\ requests' = requests + 1
    /\ UNCHANGED <<store, faults, limit, webhooksModule, app>>

Invoice2Payment(ev, u) ==
    [NewPayment EXCEPT !.userId = u, !.invoice = ev.object,
                       !.status = IF ev.type = "invoice_succeeded" THEN "succeeded"
                                  ELSE "failed",
                       !.type = IF ev.type = "invoice_failed" \/ ev.sub # None
                                THEN "subscription" ELSE "one_time"]

\* the reset handleInvoicePaymentSucceeded asks for (0: none)
RenewalCredits(ev) ==
    IF ev.type = "invoice_succeeded" /\ ev.sub # None
       /\ ev.reason = "subscription_cycle"
    THEN getPlanCredits(ev.price) ELSE 0

Invoice2Insert(p) ==
    /\ procs[p].pc = "i2_payment"
    /\ LET r == Invoice2Payment(procs[p].ev, procs[p].user) IN
       IF ~PaymentAccepted(r)
       THEN Throw(p) /\ UNCHANGED payments
       ELSE /\ payments' = Append(payments, r)
            /\ IF RenewalCredits(procs[p].ev) > 0
               THEN procs' = [procs EXCEPT ![p].pc = "reset_update",
                                           ![p].amt = RenewalCredits(procs[p].ev)]
               ELSE Done(p, "received")
    /\ UNCHANGED <<users, creditTransactions, apiUsage, subscriptions, ctl>>

\* payment intent succeeded: credits from the amount; failed: only logged
PaymentIntent2Start(p, ev) ==
    /\ webhooksModule = "unnamed"
    /\ ~Busy(p)
    /\ Room
    /\ Verified
    /\ IF EventUser(ev) = None \/ ev.type = "pi_failed"
          \/ getCreditsFromAmount(ev.amount) <= 0
       THEN Drop(p, ev)
       ELSE Begin(p, [IdleProc EXCEPT !.op = ev.type, !.pc = "add_read", !.ev = ev,
                                      !.user = EventUser(ev),
                                      !.amt = getCreditsFromAmount(ev.amount),
                                      !.pre = Snapshot(EventUser(ev))])
    /\ requests' = requests + 1
    /\ UNCHANGED <<store, faults, limit, webhooksModule, app>>

\* an event type the endpoint's switch does not name
UnhandledEvent(p, ev) ==
    /\ ev.type = "unknown"
    /\ ~Busy(p)
    /\ Room
    /\ Verified
    /\ Drop(p, ev)
    /\ requests' = requests + 1
    /\ UNCHANGED <<store, faults, limit, webhooksModule, app>>

\* ------------------------------------- costed routes (jobs.ts, coverLetters.ts)
\* authenticated callers: the account of the model and a second account
Requesters == UserIds \cup {"u2"}

\* CreditManager.checkCredits: user ? (user.credits ?? 0) >= requiredCredits : false
checkCredits(u, requiredCredits) == Exists(u) /\ CreditsOf(u) >= requiredCredits

\* faulty variant: a failed AI call is taken for a result
AiFailedNever(result) == FALSE

\* if (!result.success || !result.jobData) / generateCoverLetter throws
AiFailed(result) == result # "ok"

\* jobs.post('/extract-from-html') is called
ExtractStart(p, u) ==
    /\ ~Busy(p)
    /\ Room
    /\ Begin(p, [IdleProc EXCEPT !.op = "extract", !.pc = "admit", !.user = u,
                                 !.amt = JOB_EXTRACTION, !.pre = Snapshot(u)])
    /\ requests' = requests + 1
    /\ UNCHANGED <<store, faults, limit, webhooksModule, app>>

\* coverLetterRoutes.post('/generate-from-content') is called
GenerateStart(p, u) ==
    /\ ~Busy(p)
    /\ Room
    /\ Begin(p, [IdleProc EXCEPT !.op = "generate", !.pc = "admit", !.user = u,
                                 !.amt = COVER_LETTER_GENERATION,
                                 !.pre = Snapshot(u)])
    /\ requests' = requests + 1
    /\ UNCHANGED <<store, faults, limit, webhooksModule, app>>

\* the admission check: 402 when the balance read is below the cost
Admit(p) ==
    /\ procs[p].pc = "admit"
    /\ IF checkCredits(procs[p].user, procs[p].amt)
       THEN Goto(p, "ai")
       ELSE Done(p, "payment_required")
    /\ UNCHANGED <<store, ctl>>

\* the AI call answers with a result ("ok") or fails: extraction reports the
\* failure (400), generation throws (500); only a result lets the handler go
\* on to its insert
AiCall(p, result) ==
    /\ procs[p].pc = "ai"
    /\ IF AiFailed(result)
       THEN Done(p, IF procs[p].op = "extract" THEN "ai_failed" ELSE "error")
       ELSE procs' = [procs EXCEPT ![p].pc = "insert", ![p].ai = result]
    /\ UNCHANGED <<store, ctl>>

\* insert into extracted_jobs / cover_letters (the id is a fresh uuid), then
\* deductCredits is called
InsertArtifact(p) ==
    /\ procs[p].pc = "insert"
    /\ IF procs[p].op = "extract"
       THEN app' = [app EXCEPT !.extractedJobs =
                       Append(extractedJobs, [id |-> requests, userId |-> procs[p].user])]
       ELSE app' = [app EXCEPT !.coverLetters =
                       Append(coverLetters, [id |-> requests, userId |-> procs[p].user])]
    /\ Goto(p, "debit_read")
    /\ UNCHANGED <<store, faults, requests, limit, webhooksModule>>

\* getUserCredits / select from users: the balance read now is reported as
\* remainingCredits
Remaining(p) ==
    /\ procs[p].pc = "remaining"
    /\ procs' = [procs EXCEPT ![p] = [Outcome(p, "ok") EXCEPT
                                        !.bal = CreditsOf(procs[p].user)]]
    /\ UNCHANGED <<store, ctl>>

\* delete from <table> where id = :id: the rows that stay
RowsWithout(tbl, id) == SelectSeq(tbl, LAMBDA r : r.id # id)

\* the answer of coverLetterRoutes.delete('/:id') to the rows the delete of
\* id returns
DeleteLetterAnswer(id, u) ==
    LET result == SelectSeq(coverLetters, LAMBDA r : r.id = id) IN
    IF Len(result) = 0 THEN "not_found"
    ELSE IF result[1].userId # u THEN "forbidden" ELSE "ok"

\* the answer of jobs.delete('/extracted/:id') to the rows the delete of id
\* returns
DeleteJobAnswer(id, u) ==
    LET result == SelectSeq(extractedJobs, LAMBDA r : r.id = id) IN
    IF Len(result) = 0 \/ result[1].userId # u THEN "not_found" ELSE "ok"

\* coverLetterRoutes.delete('/:id'): the delete statement, then the answer
DeleteLetter(p, u, id) ==
    /\ ~Busy(p)
    /\ Room
    /\ app' = [app EXCEPT !.coverLetters = RowsWithout(coverLetters, id)]
    /\ Begin(p, [IdleProc EXCEPT !.op = "delete_letter", !.pc = "done", !.user = u,
                                 !.row = id,
                                 !.res = DeleteLetterAnswer(id, u)])
    /\ requests' = requests + 1
    /\ UNCHANGED <<store, faults, limit, webhooksModule>>

\* jobs.delete('/extracted/:id'): the delete statement, then the answer
DeleteJob(p, u, id) ==
    /\ ~Busy(p)
    /\ Room
    /\ app' = [app EXCEPT !.extractedJobs = RowsWithout(extractedJobs, id)]
    /\ Begin(p, [IdleProc EXCEPT !.op = "delete_job", !.pc = "done", !.user = u,
                                 !.row = id,
                                 !.res = DeleteJobAnswer(id, u)])
    /\ requests' = requests + 1
    /\ UNCHANGED <<store, faults, limit, webhooksModule>>

\* the ids a delete request may name: those of the rows stored
ArtifactIds == {coverLetters[i].id : i \in 1..Len(coverLetters)}
                 \cup {extractedJobs[i].id : i \in 1..Len(extractedJobs)}

CostedStep(p) ==
    \/ \E u \in UserIds : ExtractStart(p, u)
    \/ \E u \in UserIds : GenerateStart(p, u)
    \/ Admit(p)
    \/ \E result \in {"ok", "failed"} : AiCall(p, result)
    \/ InsertArtifact(p)
    \/ DebitRead(p)
    \/ DebitUpdate(p)
    \/ DebitUsage(p)
    \/ DebitTxn(p)
    \/ Remaining(p)
    \/ \E u \in Requesters, id \in ArtifactIds : DeleteLetter(p, u, id)
    \/ \E u \in Requesters, id \in ArtifactIds : DeleteJob(p, u, id)

\* ------------------------------------ extensionRateLimitMiddleware (part_005)
maxRequests == 100

\* the X-Extension-ID header of a request (None: the header is missing)
ExtensionIds == {"ext1", None}

\* `rate_limit:${extensionId}:${Math.floor(now / windowMs)}`
rateLimitKey(extensionId, window) == <<extensionId, window>>

\* currentDataStr ? JSON.parse(currentDataStr).count : 0.  The entry's
\* resetTime is a full window after the first request of the key, so within
\* the key's own window `now >= resetTime` is never true.
CountOf(kv, key) == IF key \in DOMAIN kv THEN kv[key] ELSE 0

\* kv.put(key, value)
PutKey(kv, key, value) == [k \in DOMAIN kv \cup {key} |-> IF k = key THEN value ELSE kv[k]]

\* a request of an extension arrives outside development; without the header
\* it is answered 400, with it the key of the current window is computed
RateStart(p, extensionId) ==
    /\ ~Busy(p)
    /\ Room
    /\ IF extensionId = None
       THEN Begin(p, [IdleProc EXCEPT !.op = "limited", !.pc = "done",
                                      !.res = "bad_request"])
       ELSE Begin(p, [IdleProc EXCEPT !.op = "limited", !.pc = "rl_get",
                                      !.user = extensionId, !.row = now])
    /\ requests' = requests + 1
    /\ UNCHANGED <<store, faults, limit, webhooksModule, app>>

\* rateLimitKV.get(key): 429 when the count read has reached maxRequests
RateGet(p) ==
    /\ procs[p].pc = "rl_get"
    /\ LET count == CountOf(rateLimitKV, rateLimitKey(procs[p].user, procs[p].row)) IN
       IF count >= maxRequests
       THEN Done(p, "rate_limited")
       ELSE procs' = [procs EXCEPT ![p].pc = "rl_put", ![p].bal = count]
    /\ UNCHANGED <<store, ctl>>

\* the request goes on to its handler under the key it computed: the
\* requests let through, this one counted
LetThrough(p) ==
    LET key == rateLimitKey(procs[p].user, procs[p].row) IN
    PutKey(admitted, key, CountOf(admitted, key) + 1)

\* currentData.count++; rateLimitKV.put(key, ...); await next()
RatePut(p) ==
    /\ procs[p].pc = "rl_put"
    /\ app' = [app EXCEPT
                  !.rateLimitKV = PutKey(rateLimitKV,
                                         rateLimitKey(procs[p].user, procs[p].row),
                                         procs[p].bal + 1),
                  !.admitted = LetThrough(p)]
    /\ Done(p, "ok")
    /\ UNCHANGED <<store, faults, requests, limit, webhooksModule>>

\* the KV get or put throws: the catch lets the request continue
RateFault(p) ==
    /\ procs[p].pc \in {"rl_get", "rl_put"}
    /\ faults < MaxFaults
    /\ faults' = faults + 1
    /\ app' = [app EXCEPT !.admitted = LetThrough(p)]
    /\ Done(p, "ok")
    /\ UNCHANGED <<store, requests, limit, webhooksModule>>

\* a window of one minute has passed
Tick ==
    /\ now < MaxWindows
    /\ app' = [app EXCEPT !.now = now + 1]
    /\ UNCHANGED <<store, procs, faults, requests, limit, webhooksModule>>

\* ------------------------------------------------- billing routes (part_007)
\* changePlanSchema: z.enum(['starter', 'pro', 'enterprise'])
ChangePlanIds == {"starter", "pro", "enterprise"}

\* PRICING_PLANS[planId]
PlanOfId(planId) ==
    PRICING_PLANS[CHOOSE i \in 1..Len(PRICING_PLANS) : PRICING_PLANS[i].id = planId]

\* the select both routes start with: 404 without a user row or subscription id
NoActiveSubscription(u) == ~Exists(u) \/ users[u].subId = None

\* billing.post('/change-plan'): the user is selected
ChangePlanStart(p, u, planId) ==
    /\ ~Busy(p)
    /\ Room
    /\ IF NoActiveSubscription(u)
       THEN Begin(p, [IdleProc EXCEPT !.op = "change_plan", !.pc = "done",
                                      !.res = "not_found"])
       ELSE Begin(p, [IdleProc EXCEPT
                         !.op = "change_plan", !.pc = "cp_user", !.user = u,
                         !.ev = [NoEvent EXCEPT !.type = "change_plan",
                                                !.object = planId,
                                                !.sub = users[u].subId,
                                                !.price = PlanOfId(planId).stripePriceId],
                         !.pre = Snapshot(u)])
    /\ requests' = requests + 1
    /\ UNCHANGED <<store, faults, limit, webhooksModule, app>>

\* stripe.updateSubscription has answered; update users set plan = planId
ChangePlanUser(p) ==
    /\ procs[p].pc = "cp_user"
    /\ IF Exists(procs[p].user)
       THEN SetUser(procs[p].user,
                    [users[procs[p].user] EXCEPT !.plan = procs[p].ev.object])
       ELSE UNCHANGED users
    /\ Goto(p, "cp_mirror")
    /\ UNCHANGED <<creditTransactions, apiUsage, payments, subscriptions, ctl>>

\* update subscriptions set stripePriceId where stripeSubscriptionId = the id read
ChangePlanMirror(p) ==
    /\ procs[p].pc = "cp_mirror"
    /\ subscriptions' = [i \in 1..Len(subscriptions) |->
                           IF subscriptions[i].subId = procs[p].ev.sub
                           THEN [subscriptions[i] EXCEPT !.priceId = procs[p].ev.price]
                           ELSE subscriptions[i]]
    /\ Done(p, "ok")
    /\ UNCHANGED <<users, creditTransactions, apiUsage, payments, ctl>>

\* billing.post('/cancel-subscription'): the user is selected
CancelStart(p, u) ==
    /\ ~Busy(p)
    /\ Room
    /\ IF NoActiveSubscription(u)
       THEN Begin(p, [IdleProc EXCEPT !.op = "cancel_sub", !.pc = "done",
                                      !.res = "not_found"])
       ELSE Begin(p, [IdleProc EXCEPT
                         !.op = "cancel_sub", !.pc = "cs_user", !.user = u,
                         !.ev = [NoEvent EXCEPT !.type = "cancel_sub",
                                                !.sub = users[u].subId],
                         !.pre = Snapshot(u)])
    /\ requests' = requests + 1
    /\ UNCHANGED <<store, faults, limit, webhooksModule, app>>

\* stripe.cancelSubscription has answered; update users set
\* subscriptionStatus = 'canceled' (the plan is not part of the set)
CancelUser(p) ==
    /\ procs[p].pc = "cs_user"
    /\ IF Exists(procs[p].user)
       THEN SetUser(procs[p].user,
                    [users[procs[p].user] EXCEPT !.status = "canceled"])
       ELSE UNCHANGED users
    /\ Goto(p, "cs_mirror")
    /\ UNCHANGED <<creditTransactions, apiUsage, payments, subscriptions, ctl>>

\* update subscriptions set status = 'canceled' where stripeSubscriptionId = the id read
CancelMirror(p) ==
    /\ procs[p].pc = "cs_mirror"
    /\ subscriptions' = [i \in 1..Len(subscriptions) |->
                           IF subscriptions[i].subId = procs[p].ev.sub
                           THEN [subscriptions[i] EXCEPT !.status = "canceled"]
                           ELSE subscriptions[i]]
    /\ Done(p, "ok")
    /\ UNCHANGED <<users, creditTransactions, apiUsage, payments, ctl>>

BillingStep(p) ==
    \/ \E u \in UserIds, planId \in ChangePlanIds : ChangePlanStart(p, u, planId)
    \/ ChangePlanUser(p)
    \/ ChangePlanMirror(p)
    \/ \E u \in UserIds : CancelStart(p, u)
    \/ CancelUser(p)
    \/ CancelMirror(p)

\* ------------------------------------------------------------------ faults
\* The statement a request is about to run throws (D1 error), or the request
\* is cut short before it: nothing of the statement is applied.
StoreFault(p) ==
    /\ Running(p)
    /\ faults < MaxFaults
    /\ faults' = faults + 1
    /\ Throw(p)
    /\ UNCHANGED <<store, requests, limit, webhooksModule, app>>

\* the response has been sent; the slot serves the next request
Finish(p) ==
    /\ procs[p].pc = "done"
    /\ procs' = [procs EXCEPT ![p] = IdleProc]
    /\ UNCHANGED <<store, ctl>>

\* the statements of lib/credits, shared by both webhooks modules
CreditStep(p) ==
    \/ \E u \in UserIds, a \in COSTS : DebitStart(p, u, a)
    \/ DebitRead(p)
    \/ DebitUpdate(p)
    \/ DebitUsage(p)
    \/ DebitTxn(p)
    \/ AddRead(p)
    \/ AddUpdate(p)
    \/ AddTxn(p)
    \/ \E ev \in OtherEvents : UnhandledEvent(p, ev)
    \/ StoreFault(p)
    \/ Finish(p)

RoutesStep(p) ==
    \/ \E ev \in CheckoutEvents : CheckoutStart(p, ev)
    \/ CheckoutInsert(p)
    \/ CheckoutGrant(p)
    \/ \E ev \in SubUpdatedEvents : SubUpdatedStart(p, ev)
    \/ SubUpdatedUser(p)
    \/ SubUpdatedSelect(p)
    \/ SubUpdatedUpsert(p)
    \/ \E ev \in SubDeletedEvents : SubDeletedStart(p, ev)
    \/ SubDeletedUser(p)
    \/ SubDeletedMirror(p)
    \/ \E ev \in InvoiceSucceededEvents : InvoiceSucceededStart(p, ev)
    \/ InvoiceSucceededSelect(p)
    \/ InvoiceSucceededCredits(p)
    \/ InvoiceSucceededPayment(p)
    \/ \E ev \in InvoiceFailedEvents : InvoiceFailedStart(p, ev)
    \/ InvoiceFailedUser(p)
    \/ InvoiceFailedPayment(p)
    \/ \E ev \in PaymentIntentEvents : PaymentIntentStart(p, ev)
    \/ PaymentIntentSelect(p)
    \/ PaymentIntentUpdate(p)

UnnamedStep(p) ==
    \/ \E ev \in CheckoutEvents : Checkout2Start(p, ev)
    \/ Checkout2User(p)
    \/ \E ev \in SubUpdatedEvents : SubUpdated2Start(p, ev)
    \/ SubUpdated2User(p)
    \/ \E ev \in SubDeletedEvents : SubDeleted2Start(p, ev)
    \/ SubDeleted2User(p)
    \/ \E ev \in InvoiceSucceededEvents \cup InvoiceFailedEvents : Invoice2Start(p, ev)
    \/ Invoice2Insert(p)
    \/ \E ev \in PaymentIntentEvents : PaymentIntent2Start(p, ev)
    \/ ResetUpdate(p)
    \/ ResetTxn(p)

Accounts ==
    \/ \E u \in UserIds : Register(u)
    \/ \E u \in UserIds : EnsureCustomer(u)

\* requests served concurrently, either webhooks module deployed
Next ==
    \/ Accounts
    \/ \E p \in Procs : CreditStep(p)
    \/ \E p \in Procs : RoutesStep(p)
    \/ \E p \in Procs : UnnamedStep(p)

Spec == Init /\ [][Next]_vars

\* requests served one after the other
NextSeq ==
    \/ Accounts
    \/ CreditStep("p1")
    \/ RoutesStep("p1")
    \/ UnnamedStep("p1")

InitSeq == InitStore /\ limit = MaxSeqRequests /\ webhooksModule \in {"routes", "unnamed"}

SpecSeq == InitSeq /\ [][NextSeq]_vars

\* deliveries served one after the other, signed or not
InitGate == InitStore /\ limit = MaxGateRequests /\ webhooksModule \in {"routes", "unnamed"}

NextGate ==
    \/ NextSeq
    \/ \E sig \in Signatures : Arrive(sig)
    \/ SignatureRejected("p1")

SpecGate == InitGate /\ [][NextGate]_vars

\* the billing routes next to the provider's subscription events, one request
\* after the other, for the routes module
InitBilling ==
    /\ limit = MaxBillingRequests
    /\ \/ InitStore /\ webhooksModule = "routes"
       \/ SubscribedStore /\ webhooksModule = "routes"

NextBilling ==
    \/ Accounts
    \/ BillingStep("p1")
    \/ \E ev \in SubUpdatedEvents : SubUpdatedStart("p1", ev)
    \/ SubUpdatedUser("p1")
    \/ SubUpdatedSelect("p1")
    \/ SubUpdatedUpsert("p1")
    \/ \E ev \in SubDeletedEvents : SubDeletedStart("p1", ev)
    \/ SubDeletedUser("p1")
    \/ SubDeletedMirror("p1")
    \/ \E u \in UserIds, a \in COSTS : DebitStart("p1", u, a)
    \/ DebitRead("p1")
    \/ DebitUpdate("p1")
    \/ DebitUsage("p1")
    \/ DebitTxn("p1")
    \/ StoreFault("p1")
    \/ Finish("p1")

SpecBilling == InitBilling /\ [][NextBilling]_vars

\* costed requests and deletes served concurrently for a freshly registered
\* account, next to direct credits
InitCosted ==
    /\ users = ("u1" :> FreshUser)
    /\ creditTransactions = <<>>
    /\ apiUsage = <<>>
    /\ payments = <<>>
    /\ subscriptions = <<>>
    /\ procs = [p \in Procs |-> IdleProc]
    /\ faults = 0
    /\ requests = 0
    /\ InitApp
    /\ limit = MaxCostedRequests
    /\ webhooksModule = "routes"

NextCosted ==
    \/ \E p \in Procs : CostedStep(p)
    \/ \E p \in Procs, u \in UserIds, a \in CreditAmounts : AddStart(p, u, a)
    \/ \E p \in Procs : AddRead(p)
    \/ \E p \in Procs : AddUpdate(p)
    \/ \E p \in Procs : AddTxn(p)
    \/ \E p \in Procs : StoreFault(p)
    \/ \E p \in Procs : Finish(p)

SpecCosted == InitCosted /\ [][NextCosted]_vars

\* ---------------------------------------------------------- redelivery
\* the checkout-completed events of a credit purchase by a known account
PurchaseEvents == {ev \in CheckoutEvents : ev.mode = "payment" /\ ev.metaUser # None}

\* the endpoint answered 400 (routes/webhooks.ts 65-68): the provider delivers
\* the event again
Redeliver(p) ==
    /\ procs[p].pc = "done"
    /\ procs[p].res = "error"
    /\ procs' = [procs EXCEPT ![p] = IdleProc]
    /\ requests' = requests - 1
    /\ UNCHANGED <<store, faults, limit, webhooksModule, app>>

\* the endpoint answered { received: true }: the provider is done with the event
Acknowledge(p) ==
    /\ procs[p].pc = "done"
    /\ procs[p].res = "received"
    /\ procs' = [procs EXCEPT ![p] = IdleProc]
    /\ UNCHANGED <<store, ctl>>

\* one credit purchase of a registered account, delivered to the routes module
\* (also twice at a time) and delivered again after every answer that is no
\* acknowledgement; store statements fail MaxFaults times at most
InitRetry ==
    /\ users = ("u1" :> FreshUser)
    /\ creditTransactions = <<>>
    /\ apiUsage = <<>>
    /\ payments = <<>>
    /\ subscriptions = <<>>
    /\ procs = [p \in Procs |-> IdleProc]
    /\ faults = 0
    /\ requests = 0
    /\ InitApp
    /\ limit = MaxDeliveries
    /\ webhooksModule = "routes"

RetryStep(p) ==
    \/ \E ev \in PurchaseEvents : CheckoutStart(p, ev)
    \/ CheckoutInsert(p)
    \/ AddRead(p)
    \/ AddUpdate(p)
    \/ AddTxn(p)
    \/ CheckoutGrant(p)
    \/ StoreFault(p)
    \/ Redeliver(p)
    \/ Acknowledge(p)

NextRetry == \E p \in Procs : RetryStep(p)

\* the worker runs every handler it has started to its end, and the provider
\* delivers again what was not acknowledged; a store failure is never forced
FairRetry ==
    \A p \in Procs :
        /\ WF_vars(\E ev \in PurchaseEvents : CheckoutStart(p, ev))
        /\ WF_vars(CheckoutInsert(p))
        /\ WF_vars(AddRead(p))
        /\ WF_vars(AddUpdate(p))
        /\ WF_vars(AddTxn(p))
        /\ WF_vars(CheckoutGrant(p))
        /\ WF_vars(Redeliver(p))
        /\ WF_vars(Acknowledge(p))

SpecRetry == InitRetry /\ [][NextRetry]_vars /\ FairRetry

\* Requests of one extension served concurrently through the rate limiter,
\* in a window in which maxRequests - 1 requests of the extension have been
\* served before, one after the other.
InitLimiter ==
    /\ users = NoRows
    /\ creditTransactions = <<>>
    /\ apiUsage = <<>>
    /\ payments = <<>>
    /\ subscriptions = <<>>
    /\ procs = [p \in Procs |-> IdleProc]
    /\ faults = 0
    /\ requests = 0
    /\ app = [signature |-> "valid", coverLetters |-> <<>>, extractedJobs |-> <<>>,
              rateLimitKV |-> PutKey(NoRows, rateLimitKey("ext1", 0), maxRequests - 1),
              admitted |-> PutKey(NoRows, rateLimitKey("ext1", 0), maxRequests - 1),
              now |-> 0]
    /\ limit = MaxLimitedRequests
    /\ webhooksModule = "routes"

NextLimiter ==
    \/ \E p \in Procs, extensionId \in ExtensionIds : RateStart(p, extensionId)
    \/ \E p \in Procs : RateGet(p)
    \/ \E p \in Procs : RatePut(p)
    \/ \E p \in Procs : RateFault(p)
    \/ \E p \in Procs : Finish(p)
    \/ Tick

SpecLimiter == InitLimiter /\ [][NextLimiter]_vars

\* concurrent debits against a freshly registered account, nothing else running
InitDebit ==
    /\ users = ("u1" :> FreshUser)
    /\ creditTransactions = <<>>
    /\ apiUsage = <<>>
    /\ payments = <<>>
    /\ subscriptions = <<>>
    /\ procs = [p \in Procs |-> IdleProc]
    /\ faults = 0
    /\ requests = 0
    /\ InitApp
    /\ limit = Cardinality(Procs)
    /\ webhooksModule \in {"routes", "unnamed"}

NextDebit ==
    \/ \E p \in Procs, u \in UserIds, a \in COSTS : DebitStart(p, u, a)
    \/ \E p \in Procs : DebitRead(p)
    \/ \E p \in Procs : DebitUpdate(p)
    \/ \E p \in Procs : DebitUsage(p)
    \/ \E p \in Procs : DebitTxn(p)

SpecDebit == InitDebit /\ [][NextDebit]_vars

\* addCredits and deductCredits called on their own, on an account that may
\* not exist yet
InitCredit ==
    /\ InitStore
    /\ limit = MaxCreditCalls
    /\ webhooksModule \in {"routes", "unnamed"}

NextCredit ==
    \/ \E u \in UserIds : Register(u)
    \/ \E p \in Procs, u \in UserIds, a \in CreditAmounts : AddStart(p, u, a)
    \/ \E p \in Procs : AddRead(p)
    \/ \E p \in Procs : AddUpdate(p)
    \/ \E p \in Procs : AddTxn(p)
    \/ \E p \in Procs, u \in UserIds, a \in COSTS : DebitStart(p, u, a)
    \/ \E p \in Procs : DebitRead(p)
    \/ \E p \in Procs : DebitUpdate(p)
    \/ \E p \in Procs : DebitUsage(p)
    \/ \E p \in Procs : DebitTxn(p)
    \/ \E p \in Procs : Finish(p)

SpecCredit == InitCredit /\ [][NextCredit]_vars

\* ============================================================== properties
Min(a, b) == IF a <= b THEN a ELSE b
Quiet == \A p \in Procs : ~Running(p)

\* C1: in every reachable state, under any interleaving of debits, credits,
\* resets and webhook handlers, every account's stored credit balance is an
\* integer >= 0.
C1_BalanceNonNegative ==
    \A u \in DOMAIN users : users[u].credits \in Nat

\* C1 witness: a debit has brought a balance down while another request is
\* in flight on the same account.
C1_Witness ==
    /\ \E u \in DOMAIN users : users[u].credits < FreeTierCredits
    /\ \E p \in Procs : Running(p)
    /\ \E i \in 1..Len(creditTransactions) : creditTransactions[i].type = "spent"

\* C2: N concurrent debits of amount a against a balance B succeed exactly
\* min(N, B div a) times, the others fail with 'Insufficient credits', and the
\* final balance is B - a * (number of successes).
C2_ConcurrentDebits ==
    LET B == FreeTierCredits
        succeeded == Cardinality({p \in Procs : procs[p].res = "ok"})
    IN \A a \in COSTS :
         (\A p \in Procs : procs[p].pc = "done" /\ procs[p].amt = a)
         => /\ succeeded = Min(Cardinality(Procs), B \div a)
            /\ \A p \in Procs : procs[p].res \in {"ok", "insufficient"}
            /\ CreditsOf("u1") = B - a * succeeded

\* C3: in every reachable state the credit balance of every account equals
\* the sum of the amounts of its ledger entries.
C3_BalanceIsLedgerSum ==
    \A u \in DOMAIN users : users[u].credits = SumAmounts(LedgerOf(u))

\* C4: the ledger entries of an account, in the order written, form a chain:
\* each entry's resulting balance is the previous entry's resulting balance
\* plus its own amount.
C4_LedgerChain ==
    \A u \in UserIds :
      LET L == LedgerOf(u) IN
        \A i \in 2..Len(L) : L[i].balance = L[i-1].balance + L[i].amount

\* the step is one of request p's own statements
Moves(p) == procs'[p].pc # procs[p].pc

\* C5: a checkout-completed event for a credit purchase, delivered any number
\* of times, leaves at most one payment record for its session and is credited
\* at most once, the credit being attempted only after the payment record was
\* inserted; once the deliveries have returned without a store failure there
\* is exactly one payment record, carrying the granted credits, and exactly
\* one earned ledger entry of the purchased amount (routes module).
C5_CheckoutOnce ==
    webhooksModule = "routes" =>
      \A ev \in {e \in CheckoutEvents : GrantsCredits(e) /\ e.metaUser # None} :
        LET recs == {i \in 1..Len(payments) : payments[i].session = ev.object}
            crediting == {p \in Procs : /\ procs[p].op = "checkout"
                                        /\ procs[p].ev = ev
                                        /\ procs[p].pc \in {"add_read", "add_update",
                                                            "add_txn"}}
            entries == Cardinality({i \in 1..Len(creditTransactions) :
                          /\ creditTransactions[i].userId = ev.metaUser
                          /\ creditTransactions[i].type = "earned"
                          /\ creditTransactions[i].source = "purchase"
                          /\ creditTransactions[i].amount = ev.credits})
        IN /\ Cardinality(recs) <= 1
           /\ entries + Cardinality(crediting) <= 1
           /\ (entries > 0 \/ crediting # {}) => recs # {}
           /\ (recs # {} /\ faults = 0
                 /\ \A p \in Procs : ~(Running(p) /\ procs[p].op = "checkout"))
              => /\ entries = 1
                 /\ \A i \in recs : payments[i].creditsGranted = ev.credits

\* C5 witness: the purchase was recorded and credited once and a second
\* delivery of the same event has been rejected by the unique index.
C5_Witness ==
    /\ webhooksModule = "routes"
    /\ faults = 0
    /\ \E i \in 1..Len(payments) :
         payments[i].session = "cs1" /\ payments[i].creditsGranted = 50
    /\ \E i \in 1..Len(creditTransactions) : creditTransactions[i].amount = 50
    /\ \E p \in Procs : /\ procs[p].op = "checkout" /\ procs[p].pc = "done"
                        /\ procs[p].res = "error"

\* a succeeded payment row for the invoice is among the first n payment rows
InvoiceRecorded(ev, n) ==
    \E i \in 1..n : /\ payments[i].status = "succeeded"
                    /\ ev.object \in {payments[i].meta, payments[i].invoice}

\* C6: an invoice-payment-succeeded event that was already processed (its
\* payment record existed when the handler started) changes neither the
\* account, nor the ledger, nor the payment records when it is delivered again.
C6_ReplayChangesNothing ==
    [][\A p \in Procs :
         (/\ procs[p].op = "invoice_succeeded" /\ procs[p].alone /\ Moves(p)
          /\ InvoiceRecorded(procs[p].ev, procs[p].pre.payments))
         => UNCHANGED <<users, creditTransactions, payments>>]_vars

\* C7: a debit that is cut short by a failing store statement leaves nothing
\* behind: balance, ledger and usage rows are as they were when it started.
C7_DebitAtomic ==
    [][\A p \in Procs :
         (/\ procs[p].op = "debit" /\ procs[p].alone /\ Moves(p)
          /\ procs'[p].res = "error")
         => /\ CreditsOf(procs[p].user) = procs[p].pre.credits
            /\ Len(LedgerOf(procs[p].user)) = procs[p].pre.ledger
            /\ Len(UsageOf(procs[p].user)) = procs[p].pre.usage]_vars

\* C8: a debit that runs alone is refused exactly when the account is missing
\* or holds less than the amount, and then changes nothing; otherwise it lowers
\* the balance by the amount and appends one spent entry (amount = -amount,
\* resulting balance = old balance - amount) and one usage row for the amount.
C8_DebitAlone ==
    [][\A p \in Procs :
         (procs[p].op = "debit" /\ procs[p].alone /\ Moves(p)) =>
           LET u == procs[p].user
               a == procs[p].amt
               pre == procs[p].pre
               L == SelectRows(creditTransactions', u)
               G == SelectRows(apiUsage', u)
               credits == IF u \in DOMAIN users' THEN users'[u].credits ELSE 0
           IN /\ procs'[p].res = "insufficient"
                   => /\ ~pre.exists \/ pre.credits < a
                      /\ credits = pre.credits
                      /\ Len(L) = pre.ledger /\ Len(G) = pre.usage
                      /\ UNCHANGED store
              /\ procs'[p].res = "ok"
                   => /\ pre.exists /\ pre.credits >= a
                      /\ credits = pre.credits - a
                      /\ Len(L) = pre.ledger + 1
                      /\ L[Len(L)].type = "spent"
                      /\ L[Len(L)].amount = -a
                      /\ L[Len(L)].balance = pre.credits - a
                      /\ Len(G) = pre.usage + 1
                      /\ G[Len(G)].creditsUsed = a]_vars

\* C8 witness: a debit that ran alone has succeeded.
C8_Witness ==
    \E p \in Procs : /\ procs[p].op = "debit" /\ procs[p].pc = "done"
                     /\ procs[p].alone /\ procs[p].res = "ok"

\* C9: when an invoice-payment-succeeded event has applied a plan allowance A
\* to an account whose balance was P, the balance is exactly A and exactly one
\* earned ledger entry was written, whose amount is A - P.
C9_InvoiceReset ==
    [][\A p \in Procs :
         (/\ procs[p].op = "invoice_succeeded" /\ procs[p].alone /\ Moves(p)
          /\ procs[p].amt > 0 /\ faults' = faults
          /\ procs'[p].pc = "done" /\ procs'[p].res = "received") =>
           LET u == procs[p].user
               pre == procs[p].pre
               L == SelectRows(creditTransactions', u)
           IN /\ users'[u].credits = procs[p].amt
              /\ Len(L) = pre.ledger + 1
              /\ L[Len(L)].type = "earned"
              /\ L[Len(L)].amount = procs[p].amt - pre.credits]_vars

\* C10: processing a subscription-deleted event for a resolvable account never
\* touches the credit balance or the ledger, and when the handler returns the
\* account is on the free plan with status canceled and the mirror row of the
\* subscription is canceled.
C10_SubscriptionDeleted ==
    [][\A p \in Procs :
         (procs[p].op = "sub_deleted" /\ procs[p].alone /\ Moves(p) /\ Running(p)) =>
           LET u == procs[p].user IN
             /\ creditTransactions' = creditTransactions
             /\ users'[u].credits = procs[p].pre.credits
             /\ (procs'[p].pc = "done" /\ faults' = faults)
                  => /\ users'[u].plan = "free"
                     /\ users'[u].status = "canceled"
                     /\ \A i \in 1..Len(subscriptions') :
                          subscriptions'[i].subId = procs[p].ev.object
                            => subscriptions'[i].status = "canceled"]_vars

\* C10 witness: a subscription-deleted event has been processed for an
\* account that had a balance and a mirror row.
C10_Witness ==
    /\ faults = 0
    /\ \E p \in Procs : /\ procs[p].op = "sub_deleted" /\ procs[p].pc = "done"
                        /\ procs[p].alone /\ procs[p].res = "received"
    /\ \E u \in DOMAIN users : /\ users[u].plan = "free"
                               /\ users[u].status = "canceled"
                               /\ users[u].credits > 0
    /\ \E i \in 1..Len(subscriptions) :
         /\ subscriptions[i].priceId = "price_pro_monthly"
         /\ subscriptions[i].status = "canceled"

\* a store statement of request p has failed in this step: an injected store
\* error, or an insert rejected by a constraint
Failed(p) == Moves(p) /\ (faults' # faults \/ procs'[p].res = "error")

\* C11: no event is partially applied: when a store statement fails while a
\* webhook handler is processing an event, the store is as it was when the
\* handler started.
C11_NoPartialEvent ==
    [][\A p \in Procs :
         (procs[p].op \in WebhookOps /\ procs[p].alone /\ Running(p) /\ Failed(p))
         => store' = procs[p].pre.store]_vars

\* C12: when a store statement fails while a webhook handler is processing an
\* event, the endpoint answers with an error, never with 'received'.
C12_FailureIsAnswered ==
    [][\A p \in Procs :
         (procs[p].op \in WebhookOps /\ Running(p) /\ Failed(p))
         => procs'[p].res = "error"]_vars

\* the requests that granted credits through addCredits and have returned
Credited == {p \in Procs : /\ procs[p].op \in {"checkout", "pi_succeeded"}
                           /\ procs[p].pc = "done" /\ procs[p].res = "received"
                           /\ procs[p].amt > 0}

\* C13: a debit(d) and a credit(c) on the same account with balance B >= d
\* that both succeed, in any interleaving, leave the balance B - d + c, and the
\* last ledger entry's resulting balance is that balance.
C13_NoLostUpdate ==
    \A p \in Procs, q \in Credited :
      (/\ requests = 2 /\ faults = 0
       /\ procs[p].op = "debit" /\ procs[p].pc = "done" /\ procs[p].res = "ok"
       /\ Len(LedgerOf("u1")) = 2)
      => LET L == LedgerOf("u1") IN
           /\ CreditsOf("u1") = FreeTierCredits - procs[p].amt + procs[q].amt
           /\ L[Len(L)].balance = CreditsOf("u1")

\* C14: a credit that runs alone raises the balance by exactly the amount and
\* appends exactly one earned entry with that amount and resulting balance =
\* old balance + amount; for a missing account it fails with an error and
\* writes nothing.
C14_CreditAlone ==
    [][\A p \in Procs :
         (/\ procs[p].pc \in {"add_read", "add_update", "add_txn"}
          /\ procs[p].alone /\ Moves(p) /\ faults' = faults) =>
           LET u == procs[p].user
               a == procs[p].amt
               pre == procs[p].pre
               L == SelectRows(creditTransactions', u)
           IN /\ ~pre.exists => /\ procs'[p].pc = "done"
                                /\ procs'[p].res = "error"
                                /\ UNCHANGED store
              /\ pre.exists => procs'[p].res # "error"
              /\ procs[p].pc = "add_txn"
                   => /\ users'[u].credits = pre.credits + a
                      /\ Len(L) = pre.ledger + 1
                      /\ L[Len(L)].type = "earned"
                      /\ L[Len(L)].amount = a
                      /\ L[Len(L)].balance = pre.credits + a
                      /\ UNCHANGED <<apiUsage, payments, subscriptions>>]_vars

\* C14 witness: a credit that ran alone has raised the balance of an account
\* and written its ledger entry.
C14_Witness ==
    /\ \E p \in Procs : /\ procs[p].op = "credit" /\ procs[p].pc = "done"
                        /\ procs[p].alone /\ procs[p].res = "ok"
    /\ CreditsOf("u1") > FreeTierCredits
    /\ Len(LedgerOf("u1")) = 1

\* C15: when a subscription created/updated event for a resolvable account
\* has been processed, the account's plan is the internal plan whose price id
\* is the event's price (free when no plan matches) and its subscription id,
\* status and billing period are the event's; the handler does not fail.
C15_SubscriptionUpdated ==
    [][\A p \in Procs :
         (/\ procs[p].op = "sub_updated" /\ procs[p].alone /\ Running(p)
          /\ Moves(p) /\ faults' = faults /\ procs'[p].pc = "done") =>
           LET u == procs[p].user
               ev == procs[p].ev
           IN /\ procs'[p].res = "received"
              /\ users'[u].plan = PlanIdOfPrice(ev.price)
              /\ users'[u].subId = ev.object
              /\ users'[u].status = ev.status
              /\ users'[u].periodEnd = ev.period]_vars

\* the mirror rows of one provider subscription id
MirrorRows(tbl, sid) == {i \in 1..Len(tbl) : tbl[i].subId = sid}

\* C16: under any sequence and interleaving of subscription created/updated
\* deliveries, the mirror never holds more than one row for a provider
\* subscription id; when a delivery has been processed the mirror holds exactly
\* one row for its subscription, carrying the event's status and price; and
\* only subscription events write the mirror (routes module).
C16_OneMirrorRow ==
    [][webhooksModule = "routes" =>
         /\ \A sid \in {ev.object : ev \in SubUpdatedEvents} :
              Cardinality(MirrorRows(subscriptions', sid)) <= 1
         /\ \A p \in Procs :
              (/\ procs[p].op = "sub_updated" /\ procs[p].pc = "su_upsert"
               /\ procs'[p].pc = "done" /\ procs'[p].res = "received") =>
                LET ev == procs[p].ev
                    rows == MirrorRows(subscriptions', ev.object)
                IN /\ Cardinality(rows) = 1
                   /\ \A i \in rows : /\ subscriptions'[i].status = ev.status
                                      /\ subscriptions'[i].priceId = ev.price
                                      /\ subscriptions'[i].userId = procs[p].user
         /\ subscriptions' # subscriptions
              => \E p \in Procs : /\ Moves(p)
                                  /\ procs[p].op \in {"sub_updated", "sub_deleted"}]_vars

\* C16 witness: of two concurrent deliveries for a subscription that had no
\* mirror row, one has inserted the row and the other was rejected by the
\* unique index.
C16_Witness ==
    /\ webhooksModule = "routes"
    /\ faults = 0
    /\ Cardinality(MirrorRows(subscriptions, "sub1")) = 1
    /\ \E p \in Procs : /\ procs[p].op = "sub_updated" /\ procs[p].pc = "done"
                        /\ procs[p].res = "error"

\* request p returns in this step and no store error was injected
Returns(p) == Running(p) /\ Moves(p) /\ procs'[p].pc = "done" /\ faults' = faults

\* C17: when an invoice-payment-succeeded event for a resolvable account has
\* been processed, the store holds a succeeded payment record for that
\* invoice, whatever was processed before it.
C17_InvoiceRecorded ==
    [][\A p \in Procs :
         (procs[p].op = "invoice_succeeded" /\ procs[p].alone /\ Returns(p)) =>
           \E i \in 1..Len(payments') :
              /\ payments'[i].userId = procs[p].user
              /\ payments'[i].status = "succeeded"
              /\ procs[p].ev.object \in {payments'[i].meta, payments'[i].invoice}]_vars

\* C18: when an invoice-payment-failed event for a resolvable account has been
\* processed, the account's status is past_due, one failed payment record for
\* the invoice was added, and the balance, the plan and the ledger are as they
\* were before the event.
C18_InvoiceFailed ==
    [][\A p \in Procs :
         (procs[p].op = "invoice_failed" /\ procs[p].alone /\ Returns(p)) =>
           LET u == procs[p].user
               before == procs[p].pre.store[1][u]
               n == Len(payments')
           IN /\ users'[u].status = "past_due"
              /\ n = procs[p].pre.payments + 1
              /\ payments'[n].status = "failed"
              /\ payments'[n].userId = u
              /\ procs[p].ev.object \in {payments'[n].meta, payments'[n].invoice}
              /\ users'[u].credits = before.credits
              /\ users'[u].plan = before.plan
              /\ creditTransactions' = procs[p].pre.store[2]]_vars

\* C19: a payment-intent succeeded/failed handler changes nothing but the
\* status of the payment record with the event's payment-intent id (nothing
\* at all when there is none) and never fails; and once a credit-purchase
\* checkout and the payment-intent-succeeded event of the same payment have
\* both been processed, in either order, the payment record is succeeded and
\* the credit was granted once.
C19_PaymentIntent ==
    [][/\ \A p \in Procs :
            (procs[p].op \in {"pi_succeeded", "pi_failed"} /\ Running(p) /\ Moves(p)) =>
              /\ UNCHANGED <<users, creditTransactions, apiUsage, subscriptions>>
              /\ Len(payments') = Len(payments)
              /\ \A i \in 1..Len(payments) :
                   \/ payments'[i] = payments[i]
                   \/ /\ payments[i].pi = procs[p].ev.object
                      /\ payments'[i] = [payments[i] EXCEPT !.status =
                            IF procs[p].op = "pi_succeeded" THEN "succeeded"
                            ELSE "failed"]
              /\ (procs'[p].pc = "done" /\ faults' = faults)
                   => procs'[p].res = "received"
       /\ \A p, q \in Procs :
            (/\ requests' = 2 /\ faults' = 0
             /\ procs'[p].op = "checkout" /\ procs'[p].pc = "done"
             /\ procs'[p].res = "received" /\ procs'[p].amt > 0
             /\ procs'[q].op = "pi_succeeded" /\ procs'[q].pc = "done"
             /\ procs'[q].res = "received") =>
              /\ \E i \in 1..Len(payments') :
                   payments'[i].pi = "pi1" /\ payments'[i].status = "succeeded"
              /\ Len(SelectRows(creditTransactions', "u1")) = 1
              /\ users'["u1"].credits = FreeTierCredits + procs'[p].amt]_vars

\* every provider event the endpoint may receive
Events == CheckoutEvents \cup SubUpdatedEvents \cup SubDeletedEvents
          \cup InvoiceSucceededEvents \cup InvoiceFailedEvents
          \cup PaymentIntentEvents \cup OtherEvents

\* the step is the endpoint receiving event ev in request p
Delivered(p, ev) ==
    \/ ev \in CheckoutEvents /\ (CheckoutStart(p, ev) \/ Checkout2Start(p, ev))
    \/ ev \in SubUpdatedEvents /\ (SubUpdatedStart(p, ev) \/ SubUpdated2Start(p, ev))
    \/ ev \in SubDeletedEvents /\ (SubDeletedStart(p, ev) \/ SubDeleted2Start(p, ev))
    \/ ev \in InvoiceSucceededEvents /\ (InvoiceSucceededStart(p, ev) \/ Invoice2Start(p, ev))
    \/ ev \in InvoiceFailedEvents /\ (InvoiceFailedStart(p, ev) \/ Invoice2Start(p, ev))
    \/ ev \in PaymentIntentEvents /\ (PaymentIntentStart(p, ev) \/ PaymentIntent2Start(p, ev))
    \/ ev \in OtherEvents /\ UnhandledEvent(p, ev)

\* C20: an event whose account cannot be resolved (no user with the event's
\* customer id, no userId in the checkout metadata) and an event of unknown
\* type is dropped: the store does not change, the endpoint acknowledges the
\* event, and the handler runs no further statement.
C20_UnresolvedDropped ==
    [][\A p \in Procs, ev \in Events :
         (/\ procs[p].pc = "idle" /\ procs'[p].pc # "idle"
          /\ ev.type = "unknown" \/ EventUser(ev) = None
          /\ Delivered(p, ev))
         => /\ UNCHANGED store
            /\ procs'[p].pc = "done"
            /\ procs'[p].res = "received"]_vars

\* C20 witness: an invoice event for a customer id that no user carries has
\* been acknowledged.
C20_Witness ==
    /\ \A u \in DOMAIN users : users[u].customer = None
    /\ \E p \in Procs : /\ procs[p].op = "invoice_succeeded" /\ procs[p].pc = "done"
                        /\ procs[p].res = "received"
    /\ payments = <<>>

\* C21: a delivery whose stripe-signature header is missing or fails
\* verification runs no handler and changes no table, and is answered with an
\* error; so every event that reaches a handler passed verification.
C21_SignatureGate ==
    [][\A p \in Procs :
          (/\ procs[p].pc = "idle"
           /\ procs'[p].pc # "idle"
           /\ procs'[p].op \in WebhookOps \cup {"webhook"}
           /\ signature # "valid")
          => (/\ store' = store
              /\ procs'[p].pc = "done"
              /\ procs'[p].res = "error")]_vars

\* an unsigned or wrongly signed delivery was rejected although the account
\* it names is a customer
C21_Witness ==
    \E p \in Procs :
        /\ procs[p].op = "webhook"
        /\ procs[p].res = "error"
        /\ signature # "valid"
        /\ UserOfCustomer("cus_u1") = "u1"

\* C22: in every reachable state each payment-intent id, checkout-session id
\* and invoice id that is not null appears in at most one payment record.
C22_UniqueCorrelationIds ==
    \A i, j \in 1..Len(payments) :
        i # j =>
          /\ payments[i].pi # None => payments[i].pi # payments[j].pi
          /\ payments[i].session # None => payments[i].session # payments[j].session
          /\ payments[i].invoice # None => payments[i].invoice # payments[j].invoice

\* C23: the account's plan, subscription status and billing period are written
\* only by the handlers of provider events; a step of any other request
\* (debit, credit, billing routes) leaves them as they are.
C23_PlanWrittenByWebhooksOnly ==
    [][\A p \in Procs :
          (Running(p) /\ Moves(p) /\ procs[p].op \notin WebhookOps) =>
             \A u \in DOMAIN users \cap DOMAIN users' :
                /\ users'[u].plan = users[u].plan
                /\ users'[u].status = users[u].status
                /\ users'[u].periodEnd = users[u].periodEnd]_vars

\* C24: in every reachable state an account whose subscription status is
\* canceled or incomplete_expired is on the free plan.
C24_CanceledIsFree ==
    \A u \in DOMAIN users :
        users[u].status \in {"canceled", "incomplete_expired"} => users[u].plan = "free"

\* C25: the balance a successful job extraction reports as remainingCredits is
\* the balance its own debit produced: the balance the debit read minus the
\* cost, whatever other debits and credits of the account run next to it.
C25_ReportedBalance ==
    [][\A p \in Procs :
          (/\ procs[p].op = "extract"
           /\ procs[p].pc = "remaining"
           /\ procs'[p].pc = "done"
           /\ procs'[p].res = "ok")
          => procs'[p].bal = DebitNewBalance(procs[p].bal, procs[p].amt)]_vars

\* the statements of deductCredits and what follows them in a costed request
AfterAiPcs == {"insert", "debit_read", "debit_update", "debit_usage", "debit_txn",
               "remaining"}

\* C26: a costed request reaches its insert and its debit only after the AI
\* call gave a result, and a request that ends at the admission check or at
\* the AI call leaves the balance, the ledger and the usage table as they were
\* when it started.
C26_DebitAfterSuccess ==
    [][\A p \in Procs :
          /\ (procs'[p].op \in CostedOps /\ procs'[p].pc \in AfterAiPcs)
                => procs'[p].ai = "ok"
          /\ (/\ procs[p].op \in CostedOps
              /\ procs[p].pc \in {"admit", "ai"}
              /\ procs'[p].pc = "done"
              /\ procs[p].alone)
             => /\ users' = procs[p].pre.store[1]
                /\ creditTransactions' = procs[p].pre.store[2]
                /\ apiUsage' = procs[p].pre.store[3]]_vars

\* after a paid extraction, an extraction whose AI call failed has ended and
\* the ledger still holds the one entry
C26_Witness ==
    \E p \in Procs :
        /\ procs[p].op = "extract"
        /\ procs[p].res = "ai_failed"
        /\ procs[p].alone
        /\ Len(creditTransactions) = 1
        /\ Len(extractedJobs) = 1

\* the spent ledger entries of an account for the two costed endpoints
PaidFor(u) ==
    {i \in 1..Len(creditTransactions) :
        /\ creditTransactions[i].userId = u
        /\ creditTransactions[i].type = "spent"
        /\ creditTransactions[i].description
              \in {"extract-from-html", "generate-from-content"}}

\* C27: once the requests in flight have ended (no statement having failed),
\* an account holds no more cover letters and extracted jobs than it has spent
\* ledger entries for the two endpoints.
C27_ArtifactsPaid ==
    ((\A p \in Procs : ~Running(p)) /\ faults = 0) =>
        \A u \in UserIds :
            Len(SelectRows(coverLetters, u)) + Len(SelectRows(extractedJobs, u))
               <= Cardinality(PaidFor(u))

\* the rows of a table that another account than u owns
RowsOfOthers(tbl, u) == {tbl[i] : i \in {j \in 1..Len(tbl) : tbl[j].userId # u}}
Rows(tbl) == {tbl[i] : i \in 1..Len(tbl)}

\* C29: a delete request for a cover letter or an extracted job leaves every
\* record in the store that the requesting user does not own.
C29_OwnerDelete ==
    [][\A p \in Procs :
          (procs[p].pc = "idle" /\ procs'[p].op \in {"delete_letter", "delete_job"})
          => /\ RowsOfOthers(coverLetters, procs'[p].user) \subseteq Rows(coverLetters')
             /\ RowsOfOthers(extractedJobs, procs'[p].user)
                   \subseteq Rows(extractedJobs')]_vars

\* C28: a checkout-completed event of a credit purchase of c credits that is
\* delivered again until it is acknowledged is eventually granted: the balance
\* has grown by c and the payment record's creditsGranted is c, store
\* statements failing only a bounded number of times.
C28_EventuallyGranted ==
    <>(/\ CreditsOf("u1") = FreeTierCredits + 50
       /\ \E i \in 1..Len(payments) :
             payments[i].session = "cs1" /\ payments[i].creditsGranted = 50)

\* C30: under every key (extension id and one-minute window) the rate limiter
\* lets at most maxRequests requests through to the handlers, also when the
\* requests of an extension are served concurrently (no KV call having failed).
C30_RateLimit ==
    faults = 0 => \A key \in DOMAIN admitted : admitted[key] <= maxRequests

====
